---- MODULE Spec2Model ----
(***************************************************************************)
(* The two example notebooks of haystack-experimental as a state machine:  *)
(* the API-key cell, the pipelines the cells build (their components and   *)
(* connections), the consumer coroutines query_pipeline and                *)
(* run_query_pipeline, and the executors the cells call (Pipeline.run,     *)
(* AsyncPipeline.run_async_generator, AsyncPipeline.run_async).  The       *)
(* executors' code is not among the notebook sources; they are modelled    *)
(* from the notebook's description of them.                                *)
(***************************************************************************)
EXTENDS Naturals, FiniteSets, Sequences, TLC

\* Steps the other coroutine on the event loop may take (bound of the model).
MaxTicks == 2

\* len(examples): the questions run_query_pipeline iterates over.
NumExamples == 3

VARIABLES
    notebook,         \* which notebook the kernel runs
    cell,             \* the cell the kernel is at
    environ,          \* os.environ["OPENAI_API_KEY"], NoKey when absent
    prompts,          \* number of getpass prompts shown
    entered,          \* what the user typed at the last prompt
    pipe,             \* the pipeline instance of the latest run, "none" before any
    genPc,            \* position of the run / of the async generator
    status,           \* per component: idle, running, finished, done
    mode,             \* per component: how its execution was launched
    lastYielded,      \* the value of the generator's latest yield
    pipeline_output,  \* the loop variable of the async for loop
    result_idx,       \* query_pipeline's result_idx
    received,         \* the values the loop body has been handed so far
    qi,               \* index of the question run_query_pipeline is at
    response,         \* what the last completed run returned
    ticks,            \* steps taken by another coroutine on the same loop
    interleaved       \* executing components during whose execution so far that
                      \* coroutine has stepped

vars == <<notebook, cell, environ, prompts, entered, pipe, genPc, status, mode,
          lastYielded, pipeline_output, result_idx, received, qi, response, ticks,
          interleaved>>

----------------------------------------------------------------------------
\* The API-key cell.

NoKey == "<absent>"

\* Values the variable may already hold, and values getpass may return.
Keys == {"", "sk-a"}

\* if "OPENAI_API_KEY" not in os.environ: os.environ[...] = getpass(...)
SetupApiKey_overwrite(env, input) == input

SetupApiKey(env, input) == IF env = NoKey THEN input ELSE env

\* getpass is called exactly when the key is absent.
Prompted(env) == env = NoKey

----------------------------------------------------------------------------
\* The pipelines the notebooks build.

RagComponents == {"text_embedder", "retriever", "prompt_builder", "llm"}

RagEdges_unconnected ==
    {<<"text_embedder", "retriever">>, <<"prompt_builder", "llm">>}

RagEdges_fanout ==
    {<<"text_embedder", "retriever">>,
     <<"text_embedder", "prompt_builder">>,
     <<"prompt_builder", "llm">>}

\* async_rag_pipeline.connect(...), three calls
RagEdges ==
    {<<"text_embedder", "retriever">>,
     <<"retriever", "prompt_builder">>,
     <<"prompt_builder", "llm">>}

RagAsyncEnabled_none == {}

\* The classes imported from haystack_experimental implement run_async:
\* InMemoryEmbeddingRetriever and OpenAIChatGenerator.  The text embedder and
\* the prompt builder are haystack's and only have run.
RagAsyncEnabled == {"retriever", "llm"}

WaitComponents == {"wait_1", "wait_2", "wait_3", "wait_4", "wait_10"}

\* pipe = Pipeline(); prompt_builder -> llm  (the basic notebook)
ChatComponents == {"prompt_builder", "llm"}

ChatEdges == {<<"prompt_builder", "llm">>}

AllComponents == RagComponents \cup WaitComponents

get_pipeline_always_async(type_) ==
    [kind |-> "AsyncPipeline", comps |-> WaitComponents, edges |-> {},
     asyncEnabled |-> WaitComponents]

\* get_pipeline(type_): five AsyncTestComponents, no connections; the class
\* of the pipeline follows type_.  AsyncTestComponent implements run_async.
get_pipeline(type_) ==
    [kind |-> IF type_ = "async" THEN "AsyncPipeline" ELSE "Pipeline",
     comps |-> WaitComponents, edges |-> {},
     asyncEnabled |-> WaitComponents]

async_rag_pipeline ==
    [kind |-> "AsyncPipeline", comps |-> RagComponents, edges |-> RagEdges,
     asyncEnabled |-> RagAsyncEnabled]

chat_pipeline ==
    [kind |-> "Pipeline", comps |-> ChatComponents, edges |-> ChatEdges,
     asyncEnabled |-> {}]

PipeNames == {"chat", "rag", "wait_sync", "wait_async"}

Pipelines(p) ==
    CASE p = "chat"       -> chat_pipeline
      [] p = "rag"        -> async_rag_pipeline
      [] p = "wait_sync"  -> get_pipeline("sync")
      [] p = "wait_async" -> get_pipeline("async")
      [] OTHER            -> [kind |-> "none", comps |-> {}, edges |-> {},
                              asyncEnabled |-> {}]

Kind(p) == Pipelines(p).kind
Components(p) == Pipelines(p).comps
Edges(p) == Pipelines(p).edges
AsyncEnabled(p) == Pipelines(p).asyncEnabled

Predecessors(p, c) == {d \in Components(p) : <<d, c>> \in Edges(p)}

\* Leaf nodes of the pipeline graph: components nothing is connected from.
Leaves(p) == {c \in Components(p) : \A d \in Components(p) : <<c, d>> \notin Edges(p)}

----------------------------------------------------------------------------
\* The notebooks' cells, in the order the kernel runs them.

Notebooks == {"basic", "async"}

\* The pipeline a cell runs.
CellPipe(c) ==
    CASE c = "chat_run"      -> "chat"
      [] c = "rag_generator" -> "rag"
      [] c = "rag_run_async" -> "rag"
      [] c = "wait_sync"     -> "wait_sync"
      [] c = "wait_async"    -> "wait_async"
      [] OTHER               -> "none"

NextCell(nb, c) ==
    IF nb = "basic"
    THEN CASE c = "key" -> "chat_run" [] OTHER -> "end"
    ELSE CASE c = "key"           -> "rag_generator"
           [] c = "rag_generator" -> "rag_run_async"
           [] c = "rag_run_async" -> "wait_sync"
           [] c = "wait_sync"     -> "wait_async"
           [] OTHER               -> "end"

\* include_outputs_from of the run_async call on the RAG pipeline.
IncludeOutputsFrom(c) == IF c = "rag_run_async" THEN {"retriever"} ELSE {}

\* How many runs a cell makes: run_query_pipeline makes one per question.
RunsOf(c) == IF c = "rag_generator" THEN NumExamples ELSE 1

Idle == [c \in AllComponents |-> "idle"]
NoMode == [c \in AllComponents |-> "none"]

Executing == {c \in AllComponents : status[c] = "running"}

InRun == genPc \notin {"idle", "returned"}

\* Pipeline.run does not return control to the event loop until it is done.
loopBlocked == InRun /\ Kind(pipe) = "Pipeline"

----------------------------------------------------------------------------
Init ==
    /\ notebook \in Notebooks
    /\ cell = "key"
    /\ environ \in {NoKey} \cup Keys
    /\ prompts = 0
    /\ entered = NoKey
    /\ pipe = "none"
    /\ genPc = "idle"
    /\ status = Idle
    /\ mode = NoMode
    /\ lastYielded = {}
    /\ pipeline_output = {}
    /\ result_idx = 0
    /\ received = {}
    /\ qi = 1
    /\ response = {}
    /\ ticks = 0
    /\ interleaved = {}

runVars == <<pipe, genPc, status, mode, lastYielded, pipeline_output, result_idx,
             received, qi, response>>

\* The cell that supplies the API key.
KeyCell(input) ==
    /\ cell = "key"
    /\ environ' = SetupApiKey(environ, input)
    /\ prompts' = IF Prompted(environ) THEN prompts + 1 ELSE prompts
    /\ entered' = IF Prompted(environ) THEN input ELSE entered
    /\ cell' = NextCell(notebook, cell)
    /\ UNCHANGED <<notebook, runVars, ticks, interleaved>>

\* A cell calls pipe.run, run_async, or starts iterating run_async_generator.
BeginRun ==
    /\ CellPipe(cell) # "none"
    /\ ~InRun
    /\ pipe' = CellPipe(cell)
    /\ genPc' = "running"
    /\ status' = Idle
    /\ mode' = NoMode
    /\ lastYielded' = {}
    /\ pipeline_output' = {}
    /\ result_idx' = 0
    /\ received' = {}
    /\ interleaved' = {}
    /\ UNCHANGED <<notebook, cell, environ, prompts, entered, qi, response, ticks>>

\* A component can run once every component connected into it has run and
\* its outputs have been handed on.
Ready(c) ==
    /\ c \in Components(pipe)
    /\ status[c] = "idle"
    /\ \A d \in Predecessors(pipe, c) : status[d] = "done"

\* How a pipeline launches a component.
LaunchMode(p, c) ==
    IF Kind(p) = "Pipeline" THEN "blocking"
    ELSE IF c \in AsyncEnabled(p) THEN "coroutine" ELSE "thread"

\* Pipeline.run calls component.run in place, one component after another.
StartBlocking(c) ==
    /\ genPc = "running"
    /\ Kind(pipe) = "Pipeline"
    /\ Executing = {}
    /\ Ready(c)
    /\ status' = [status EXCEPT ![c] = "running"]
    /\ mode' = [mode EXCEPT ![c] = LaunchMode(pipe, c)]
    /\ UNCHANGED <<notebook, cell, environ, prompts, entered, pipe, genPc,
                   lastYielded, pipeline_output, result_idx, received, qi,
                   response, ticks, interleaved>>

ReturnBlocking(c) ==
    /\ Kind(pipe) = "Pipeline"
    /\ status[c] = "running"
    /\ status' = [status EXCEPT ![c] = "done"]
    /\ UNCHANGED <<notebook, cell, environ, prompts, entered, pipe, genPc, mode,
                   lastYielded, pipeline_output, result_idx, received, qi,
                   response, ticks, interleaved>>

\* The cell moves on after its last run.
AfterRunCell == IF qi = RunsOf(cell) THEN NextCell(notebook, cell) ELSE cell
AfterRunQi == IF qi = RunsOf(cell) THEN 1 ELSE qi + 1

\* Pipeline.run returns the outputs of the leaf components.
SyncReturn ==
    /\ genPc = "running"
    /\ Kind(pipe) = "Pipeline"
    /\ \A c \in Components(pipe) : status[c] = "done"
    /\ response' = Leaves(pipe)
    /\ genPc' = "returned"
    /\ cell' = AfterRunCell
    /\ qi' = AfterRunQi
    /\ UNCHANGED <<notebook, environ, prompts, entered, pipe, status, mode,
                   lastYielded, pipeline_output, result_idx, received, ticks,
                   interleaved>>

\* The AsyncPipeline schedules a component: as a coroutine on the event loop
\* when it implements run_async, in a thread otherwise.  Components whose
\* inputs are ready are scheduled while others are still executing.
StartComponent(c) ==
    /\ genPc = "running"
    /\ Kind(pipe) = "AsyncPipeline"
    /\ Ready(c)
    /\ status' = [status EXCEPT ![c] = "running"]
    /\ mode' = [mode EXCEPT ![c] = LaunchMode(pipe, c)]
    /\ UNCHANGED <<notebook, cell, environ, prompts, entered, pipe, genPc,
                   lastYielded, pipeline_output, result_idx, received, qi,
                   response, ticks, interleaved>>

\* A component's coroutine or thread returns its outputs.
FinishComponent(c) ==
    /\ InRun
    /\ Kind(pipe) = "AsyncPipeline"
    /\ status[c] = "running"
    /\ status' = [status EXCEPT ![c] = "finished"]
    /\ interleaved' = interleaved \ {c}
    /\ UNCHANGED <<notebook, cell, environ, prompts, entered, pipe, genPc, mode,
                   lastYielded, pipeline_output, result_idx, received, qi,
                   response, ticks>>

LoopVariable_first(old, value) == IF old = {} THEN value ELSE old

\* async for pipeline_output in ...: each yielded value is bound to the loop
\* variable.
LoopVariable(old, value) == value

\* The generator yields the output of a component that has executed.
YieldPartial(c) ==
    /\ genPc = "running"
    /\ Kind(pipe) = "AsyncPipeline"
    /\ status[c] = "finished"
    /\ status' = [status EXCEPT ![c] = "done"]
    /\ lastYielded' = {c}
    /\ pipeline_output' = LoopVariable(pipeline_output, {c})
    /\ genPc' = "suspended"
    /\ UNCHANGED <<notebook, cell, environ, prompts, entered, pipe, mode,
                   result_idx, received, qi, response, ticks, interleaved>>

\* The final pipeline outputs: the leaves' and those asked for.
FinalOutputs == Leaves(pipe) \cup (IncludeOutputsFrom(cell) \cap Components(pipe))

\* Once every component has run the generator yields the final outputs.
YieldFinal ==
    /\ genPc = "running"
    /\ Kind(pipe) = "AsyncPipeline"
    /\ \A c \in Components(pipe) : status[c] = "done"
    /\ lastYielded' = FinalOutputs
    /\ pipeline_output' = LoopVariable(pipeline_output, FinalOutputs)
    /\ genPc' = "suspended_final"
    /\ UNCHANGED <<notebook, cell, environ, prompts, entered, pipe, status, mode,
                   result_idx, received, qi, response, ticks, interleaved>>

\* The body of the async for loop, then the next value is asked for: the
\* generator resumes, or ends after its final yield.
LoopBody ==
    /\ genPc \in {"suspended", "suspended_final"}
    /\ received' = received \cup {pipeline_output}
    /\ result_idx' = result_idx + 1
    /\ genPc' = IF genPc = "suspended" THEN "running" ELSE "exhausted"
    /\ UNCHANGED <<notebook, cell, environ, prompts, entered, pipe, status, mode,
                   lastYielded, pipeline_output, qi, response, ticks, interleaved>>

\* Program flow has left the loop: return pipeline_output.
AsyncReturn ==
    /\ genPc = "exhausted"
    /\ response' = pipeline_output
    /\ genPc' = "returned"
    /\ cell' = AfterRunCell
    /\ qi' = AfterRunQi
    /\ UNCHANGED <<notebook, environ, prompts, entered, pipe, status, mode,
                   lastYielded, pipeline_output, result_idx, received, ticks,
                   interleaved>>

\* Another coroutine scheduled on the same event loop takes a step.
OtherCoroutineStep ==
    /\ ~loopBlocked
    /\ ticks < MaxTicks
    /\ ticks' = ticks + 1
    /\ interleaved' = interleaved \cup Executing
    /\ UNCHANGED <<notebook, cell, environ, prompts, entered, runVars>>

Next ==
    \/ \E input \in Keys : KeyCell(input)
    \/ BeginRun
    \/ \E c \in AllComponents : StartBlocking(c)
    \/ \E c \in AllComponents : ReturnBlocking(c)
    \/ SyncReturn
    \/ \E c \in AllComponents : StartComponent(c)
    \/ \E c \in AllComponents : FinishComponent(c)
    \/ \E c \in AllComponents : YieldPartial(c)
    \/ YieldFinal
    \/ LoopBody
    \/ AsyncReturn
    \/ OtherCoroutineStep

Spec == Init /\ [][Next]_vars

TypeOK ==
    /\ notebook \in Notebooks
    /\ cell \in {"key", "chat_run", "rag_generator", "rag_run_async", "wait_sync",
                 "wait_async", "end"}
    /\ environ \in {NoKey} \cup Keys
    /\ prompts \in 0..1
    /\ pipe \in PipeNames \cup {"none"}
    /\ genPc \in {"idle", "running", "suspended", "suspended_final", "exhausted",
                  "returned"}
    /\ status \in [AllComponents -> {"idle", "running", "finished", "done"}]
    /\ mode \in [AllComponents -> {"none", "blocking", "coroutine", "thread"}]
    /\ pipeline_output \subseteq AllComponents
    /\ response \subseteq AllComponents
    /\ qi \in 1..NumExamples
    /\ ticks \in 0..MaxTicks

----------------------------------------------------------------------------
\* Properties.

AsyncRun == InRun /\ Kind(pipe) = "AsyncPipeline"

C3_IntermediateResultsFirst ==
    /\ (pipe = "rag" /\ status["llm"] \in {"finished", "done"}) =>
           {"retriever"} \in received
    /\ Kind(pipe) = "AsyncPipeline" =>
           \A v \in received \cup {lastYielded} :
               \A c \in v : status[c] \in {"finished", "done"}

C3_Witness ==
    /\ pipe = "rag"
    /\ cell = "rag_generator"
    /\ {"retriever"} \in received
    /\ status["llm"] = "running"

\* C4: once program flow has left the async for loop every component of the
\* pipeline has finished, the loop variable holds the last value yielded,
\* which holds the outputs of the leaf components (llm for the RAG
\* pipeline), and that value is what query_pipeline returns.
C4_LoopExitIsCompletion ==
    (genPc \in {"exhausted", "returned"} /\ Kind(pipe) = "AsyncPipeline") =>
        /\ \A c \in Components(pipe) : status[c] = "done"
        /\ pipeline_output = lastYielded
        /\ Leaves(pipe) \subseteq pipeline_output
        /\ pipe = "rag" => "llm" \in pipeline_output
        /\ genPc = "returned" => response = pipeline_output

C4_Witness ==
    /\ genPc = "returned"
    /\ cell = "rag_generator"
    /\ qi = 2
    /\ response = {"llm"}
    /\ result_idx = Cardinality(RagComponents) + 1

C6_KeyCellOnlySuppliesMissingKey ==
    [][cell = "key" /\ cell' # "key" =>
          /\ environ # NoKey => (environ' = environ /\ prompts' = prompts)
          /\ environ = NoKey =>
                 (prompts' = prompts + 1 /\ entered' \in Keys /\ environ' = entered')
          /\ environ' # NoKey]_vars

C6_Witness ==
    /\ cell # "key"
    /\ notebook = "basic"
    /\ prompts = 1
    /\ environ = entered
    /\ environ = "sk-a"

====
